---- MODULE Spec2Model ----
(***************************************************************************)
(* Model of the MangaMaker generation orchestration: the Workspace page's  *)
(* handleGenerate (src/app/settings/page.tsx, second component), the       *)
(* prompt planners and the Gemini image adapter (src/lib/gemini.ts), the   *)
(* fal adapter (src/lib/fal.ts) and the image store (src/unnamed/part_001).*)
(*                                                                         *)
(* handleGenerate is an async function: every await is a suspension point, *)
(* and the code between two awaits runs to completion.  Each action below  *)
(* is one such synchronous segment, catch and finally blocks included.     *)
(***************************************************************************)
EXTENDS Integers, Sequences, FiniteSets, TLC

\* ------------------------------------------------------------------ bounds

\* number of runs of handleGenerate that pass the credential checks
MaxRuns == 3
\* longest array of strings the upstream planner model answers with
MaxPrompts == 3
\* number of reference-image ids in the direct calls of the library functions
MaxRefs == 3

\* ------------------------------------------------- program constants, sets

\* <input type="range" min="1" max="4"> of the page-count slider
MinPageCount == 1
MaxPageCount == 4
PageCounts == MinPageCount..MaxPageCount

Providers == {"gemini", "fal"}
InputModes == {"idea", "script"}

\* prompt texts of the textarea: empty, blank (only white space), a story
PromptTexts == {"", " ", "story"}

\* String.prototype.trim() on the modelled prompt texts
Trim(s) == IF s = " " THEN "" ELSE s

\* ids of reference images the page can show, and the credentials at mount
ImageIds == {"img1"}
GeminiKeys == {"", "gemini-key"}
FalKeys == {"", "fal-key"}

\* the texts of the planned prompts the upstream model writes, by position
PromptPool == <<"pA", "pB", "pC", "pD", "pE">>

\* the image bytes an image provider answers a call with: opaque to the page,
\* and told apart by the call (run, page) they answer
ImageBytes(r, page) == <<"bytes", r, page>>

\* ------------------------------------------------------------ thrown values

\* a value thrown by a callee: an Error object with a message, or some other
\* value (FileReader's onerror rejects with a ProgressEvent)
ErrorOf(msg) == [isError |-> TRUE, message |-> msg]
NonError == [isError |-> FALSE, message |-> ""]

\* results of an awaited call: a value, or a thrown value
Returned(v) == [ok |-> TRUE, value |-> v, err |-> NonError]
Threw(e) == [ok |-> FALSE, value |-> <<>>, err |-> e]

GenericErrorMessage == "generation failed (generic message)"
NeedGeminiKeyMessage == "Gemini API Key is required for prompt generation"
NoGeminiKeyMessage == "Gemini API Key is not set"
NoFalKeyMessage == "Fal.ai API Key is not set"

\* catch (err) { setError(err instanceof Error ? err.message : '...') }
CatchMessage(e) == IF e.isError THEN e.message ELSE GenericErrorMessage

\* ----------------------------------------------------------- status messages

StatusEmpty == [kind |-> "empty", i |-> 0, n |-> 0]
StatusPlanning == [kind |-> "planning", i |-> 0, n |-> 0]
StatusDrawing == [kind |-> "drawing", i |-> 0, n |-> 0]
StatusPage(i, n) == [kind |-> "page", i |-> i, n |-> n]

\* ------------------------------------------------- planner (src/lib/gemini.ts)

\* The text the upstream model answers with is a sequence of chunks: markdown
\* fences, white space, prose, and JSON documents.
Chunk(kind, valid, isArray, items) ==
    [kind |-> kind, valid |-> valid, isArray |-> isArray, items |-> items]
FenceJson == Chunk("fence_json", FALSE, FALSE, <<>>)
Fence == Chunk("fence", FALSE, FALSE, <<>>)
Space == Chunk("space", FALSE, FALSE, <<>>)
Prose == Chunk("prose", FALSE, FALSE, <<>>)
\* a chunk that is no JSON text at all
Garbage == Chunk("doc", FALSE, FALSE, <<>>)
JsonObject == Chunk("doc", TRUE, FALSE, <<>>)
JsonArray(items) == Chunk("doc", TRUE, TRUE, items)

StringItem(s) == [isString |-> TRUE, s |-> s]
NumberItem == [isString |-> FALSE, s |-> "42"]

\* the JSON array of the first n pool prompts
StringArray(n) == JsonArray([j \in 1..n |-> StringItem(PromptPool[j])])

\* an array of n items whose last item is a number
MixedArray(n) ==
    JsonArray([j \in 1..n |-> IF j = n THEN NumberItem ELSE StringItem(PromptPool[j])])

\* the two replace() calls that delete the markdown fences
StripFences(text) == SelectSeq(text, LAMBDA c : c.kind \notin {"fence_json", "fence"})

RECURSIVE TrimLeft(_)
TrimLeft(text) ==
    IF text # <<>> /\ Head(text).kind = "space" THEN TrimLeft(Tail(text)) ELSE text

RECURSIVE TrimRight(_)
TrimRight(text) ==
    IF text # <<>> /\ text[Len(text)].kind = "space"
    THEN TrimRight(SubSeq(text, 1, Len(text) - 1))
    ELSE text

\* String.prototype.trim() on a chunked text
TrimText(text) == TrimRight(TrimLeft(text))

\* JSON.parse: the text must be exactly one JSON document
JsonParses(jsonStr) ==
    /\ Len(jsonStr) = 1
    /\ jsonStr[1].kind = "doc"
    /\ jsonStr[1].valid

ParseFailedMessage == "Failed to generate valid prompt structure"
ApiKeyMissingMessage == "API Key is missing"
SdkErrorMessage == "[GoogleGenerativeAI Error]: request failed"

\* the clean-up and try/catch that ends both planners and parseJsonResult:
\* returns the parsed array when it is an array of strings, throws otherwise
ParsePrompts(text) ==
    LET jsonStr == TrimText(StripFences(text))
    IN  IF /\ JsonParses(jsonStr)
           /\ jsonStr[1].isArray
           /\ \A j \in 1..Len(jsonStr[1].items) : jsonStr[1].items[j].isString
        THEN Returned([j \in 1..Len(jsonStr[1].items) |-> jsonStr[1].items[j].s])
        ELSE Threw(ErrorOf(ParseFailedMessage))

\* what the upstream planner model does with one request: the FileReader of
\* the reference images, the SDK call, and the text it answers with
Upstream(reader, sdk, text) == [reader |-> reader, sdk |-> sdk, text |-> text]

UpstreamTexts ==
    {<<StringArray(n)>> : n \in 0..MaxPrompts}
    \cup {<<FenceJson, Space, StringArray(n), Space, Fence>> : n \in 1..MaxPrompts}
    \cup {<<Prose, FenceJson, StringArray(1), Fence>>,
          <<Garbage>>, <<>>, <<JsonObject>>, <<MixedArray(2)>>}

PlannerUpstreams ==
    {Upstream("ok", "ok", t) : t \in UpstreamTexts}
    \cup {Upstream("ok", "error", <<>>), Upstream("error", "ok", <<StringArray(1)>>)}

generateMangaPrompts(apiKey, pageCount, referenceImages, up) ==
    IF apiKey = "" THEN Threw(ErrorOf(ApiKeyMissingMessage))
    ELSE IF referenceImages # <<>> /\ up.reader = "error" THEN Threw(NonError)
    ELSE IF up.sdk = "error" THEN Threw(ErrorOf(SdkErrorMessage))
    ELSE ParsePrompts(up.text)

generatePromptsFromScript(apiKey, pageCount, up) ==
    IF apiKey = "" THEN Threw(ErrorOf(ApiKeyMissingMessage))
    ELSE IF up.sdk = "error" THEN Threw(ErrorOf(SdkErrorMessage))
    ELSE ParsePrompts(up.text)


\* ------------------------------------------------- character analysis

CandidateModels ==
    <<"gemini-1.5-flash", "gemini-1.5-flash-001", "gemini-1.5-pro", "gemini-pro-vision">>

AnalysisKeyMissingMessage == "API Key is missing for analysis"
AllModelsFailedMessage == "All analysis models failed"

\* what the candidate models do with the request: for each, in the listed
\* order, whether generateContent and text() succeed
AnalysisAnswers == [1..Len(CandidateModels) -> {"ok", "error"}]

\* the description the model answers with and the error it fails with, told
\* apart by the model
AnalysisText(modelName) == <<"features by", modelName>>
AnalysisError(modelName) == ErrorOf(modelName)

\* no error has been caught yet (let lastError)
NoLastError == [isError |-> FALSE, message |-> "undefined"]

\* lastError = e
LastErrorKeepFirst(lastError, e) == IF lastError = NoLastError THEN e ELSE lastError

LastError(lastError, e) == e

\* for (const modelName of candidateModels) { try { ... return } catch { ... } }
\* followed by: throw lastError || new Error(...)
RECURSIVE TryModels(_, _, _, _)
TryModels(j, answers, calls, lastError) ==
    IF j > Len(CandidateModels)
    THEN [calls |-> calls,
          result |-> Threw(IF lastError = NoLastError
                           THEN ErrorOf(AllModelsFailedMessage)
                           ELSE lastError)]
    ELSE IF answers[j] = "ok"
    THEN [calls |-> Append(calls, CandidateModels[j]),
          result |-> Returned(AnalysisText(CandidateModels[j]))]
    ELSE TryModels(j + 1, answers, Append(calls, CandidateModels[j]),
                   LastError(lastError, AnalysisError(CandidateModels[j])))

\* reader is the outcome of blobToBase64's FileReader
analyzeCharacterFeatures(key, reader, answers) ==
    IF key = "" THEN [calls |-> <<>>, result |-> Threw(ErrorOf(AnalysisKeyMissingMessage))]
    ELSE IF reader = "error" THEN [calls |-> <<>>, result |-> Threw(NonError)]
    ELSE TryModels(1, answers, <<>>, NoLastError)

\* ------------------------------------------------------------ server actions

\* a GeminiConfig; an optional field that is absent is the empty string
GeminiConfigs ==
    [provider : {"google", "vertex", "bedrock"}, apiKey : {"", "gemini-key"},
     projectId : {"", "project"}, location : {"", "us-central1"}]

\* what a server action did and how it ended: the SDK clients it constructed
\* and the provider calls it issued, in order, and its result
ActionOutcome(effects, result) == [effects |-> effects, result |-> result]

GoogleKeyImageMessage == "Gemini API Key is required for Google AI Studio provider."
GoogleKeyPromptsMessage == "Gemini API Key is required."
VertexConfigImageMessage == "Project ID and Location are required for Vertex AI provider."
VertexConfigPromptsMessage == "Project ID and Location required for Vertex AI."
InvalidProviderMessage == "Invalid provider"
NoImageGoogleMessage == "No image data found in Google AI response"
NoImageVertexMessage == "No image data found in Vertex AI response"

\* !config.projectId || !config.location
VertexConfigMissingProjectOnly(config) == config.projectId = ""

VertexConfigMissing(config) == config.projectId = "" \/ config.location = ""

\* what the SDK's generateContent does with an image request
SdkAnswer(sdk, parts) == [sdk |-> sdk, parts |-> parts]

\* the loop over candidates[0].content.parts of a server action
RECURSIVE ActionImagePart(_, _)
ActionImagePart(parts, message) ==
    IF parts = <<>> THEN Threw(ErrorOf(message))
    ELSE IF Head(parts).inline /\ Head(parts).mime[1] = "image"
         THEN Returned(Head(parts).data)
         ELSE ActionImagePart(Tail(parts), message)

generateImageAction(config, prompt, referenceImages, options, answer) ==
    IF config.provider = "google"
    THEN IF config.apiKey = ""
         THEN ActionOutcome(<<>>, Threw(ErrorOf(GoogleKeyImageMessage)))
         ELSE ActionOutcome(<<"new GoogleGenerativeAI", "generateContent">>,
                  IF answer.sdk = "error" THEN Threw(ErrorOf(SdkErrorMessage))
                  ELSE ActionImagePart(answer.parts, NoImageGoogleMessage))
    ELSE IF config.provider = "vertex"
    THEN IF VertexConfigMissing(config)
         THEN ActionOutcome(<<>>, Threw(ErrorOf(VertexConfigImageMessage)))
         ELSE ActionOutcome(<<"new VertexAI", "generateContent">>,
                  IF answer.sdk = "error" THEN Threw(ErrorOf(SdkErrorMessage))
                  ELSE ActionImagePart(answer.parts, NoImageVertexMessage))
    ELSE ActionOutcome(<<>>, Threw(ErrorOf(InvalidProviderMessage)))

generateMangaPromptsAction(config, prompt, pageCount, referenceImages, isScriptMode, up) ==
    IF config.provider = "google"
    THEN IF config.apiKey = ""
         THEN ActionOutcome(<<>>, Threw(ErrorOf(GoogleKeyPromptsMessage)))
         ELSE ActionOutcome(<<"new GoogleGenerativeAI", "generateContent">>,
                  IF up.sdk = "error" THEN Threw(ErrorOf(SdkErrorMessage))
                  ELSE ParsePrompts(up.text))
    ELSE IF config.provider = "vertex"
    THEN IF VertexConfigMissing(config)
         THEN ActionOutcome(<<>>, Threw(ErrorOf(VertexConfigPromptsMessage)))
         ELSE ActionOutcome(<<"new VertexAI", "generateContent">>,
                  IF up.sdk = "error" THEN Threw(ErrorOf(SdkErrorMessage))
                  ELSE ParsePrompts(up.text))
    ELSE ActionOutcome(<<>>, Threw(ErrorOf(InvalidProviderMessage)))

\* --------------------------------------------------- image provider adapters

\* a base64 payload of some image bytes, and the gallery's data URL of it
Base64(bytes) == [b64 |-> bytes]
DataUrl(base64Image) == <<"data:image/png;base64,", base64Image>>

\* response.ok
HttpOk(status) == status >= 200 /\ status <= 299

\* one part of candidates[0].content.parts of a Gemini answer
TextPart == [inline |-> FALSE, mime |-> <<"text", "plain">>, data |-> Base64(<<>>)]
InlinePart(mime, bytes) == [inline |-> TRUE, mime |-> mime, data |-> Base64(bytes)]

\* what the Gemini endpoint does with one generateImage call
GeminiResponse(reader, net, status, jsonOk, parts) ==
    [reader |-> reader, net |-> net, status |-> status, jsonOk |-> jsonOk,
     parts |-> parts]

GeminiResponses(b) ==
    {GeminiResponse("ok", "ok", 200, TRUE, <<InlinePart(<<"image", "png">>, b)>>),
     GeminiResponse("ok", "ok", 200, TRUE,
         <<TextPart, InlinePart(<<"image", "jpeg">>, b)>>),
     GeminiResponse("ok", "ok", 200, TRUE, <<TextPart>>),
     GeminiResponse("ok", "ok", 200, TRUE, <<>>),
     GeminiResponse("ok", "ok", 200, TRUE, <<InlinePart(<<"application", "json">>, b)>>),
     GeminiResponse("ok", "ok", 200, FALSE, <<>>),
     GeminiResponse("ok", "ok", 500, TRUE, <<>>),
     GeminiResponse("ok", "error", 0, FALSE, <<>>),
     GeminiResponse("error", "ok", 200, TRUE, <<InlinePart(<<"image", "png">>, b)>>)}

FetchFailedMessage == "Failed to fetch"
JsonSyntaxMessage == "Unexpected token in JSON"
GeminiHttpMessage == "Image Generation Failed: status statusText - body"
GeminiUnknownMessage == "Received an unknown response format from Image API"

\* the first part that is inline image data
RECURSIVE FirstImagePart(_)
FirstImagePart(parts) ==
    IF parts = <<>> THEN Threw(ErrorOf(GeminiUnknownMessage))
    ELSE IF Head(parts).inline /\ Head(parts).mime[1] = "image"
         THEN Returned(Head(parts).data)
         ELSE FirstImagePart(Tail(parts))

generateImage(apiKey, imagePrompt, referenceImages, resp) ==
    IF referenceImages # <<>> /\ resp.reader = "error" THEN Threw(NonError)
    ELSE IF resp.net = "error" THEN Threw(ErrorOf(FetchFailedMessage))
    ELSE IF ~HttpOk(resp.status) THEN Threw(ErrorOf(GeminiHttpMessage))
    ELSE IF ~resp.jsonOk THEN Threw(ErrorOf(JsonSyntaxMessage))
    ELSE FirstImagePart(resp.parts)

\* what fal.run and the image host do with one generateImageFal call
FalResponse(net, status, jsonOk, images, imgNet, imgStatus, imgBody, reader) ==
    [net |-> net, status |-> status, jsonOk |-> jsonOk, images |-> images,
     imgNet |-> imgNet, imgStatus |-> imgStatus, imgBody |-> imgBody,
     reader |-> reader]

FalResponses(b) ==
    {FalResponse("ok", 200, TRUE, <<"url">>, "ok", 200, b, "ok"),
     FalResponse("ok", 200, TRUE, <<"url">>, "ok", 404, b, "ok"),
     FalResponse("ok", 200, TRUE, <<"url">>, "error", 0, b, "ok"),
     FalResponse("ok", 200, TRUE, <<"url">>, "ok", 200, b, "error"),
     FalResponse("ok", 200, TRUE, <<>>, "ok", 200, b, "ok"),
     FalResponse("ok", 200, FALSE, <<>>, "ok", 200, b, "ok"),
     FalResponse("ok", 500, TRUE, <<>>, "ok", 200, b, "ok"),
     FalResponse("error", 0, FALSE, <<>>, "ok", 200, b, "ok")}

FalHttpMessage == "Fal.ai Error: status - body"
FalNoImageMessage == "No image returned from Fal.ai"

generateImageFal(apiKey, imagePrompt, resp) ==
    IF resp.net = "error" THEN Threw(ErrorOf(FetchFailedMessage))
    ELSE IF ~HttpOk(resp.status) THEN Threw(ErrorOf(FalHttpMessage))
    ELSE IF ~resp.jsonOk THEN Threw(ErrorOf(JsonSyntaxMessage))
    ELSE IF Len(resp.images) > 0
         THEN IF resp.imgNet = "error" THEN Threw(ErrorOf(FetchFailedMessage))
              ELSE IF resp.reader = "error" THEN Threw(NonError)
              ELSE Returned(Base64(resp.imgBody))
         ELSE Threw(ErrorOf(FalNoImageMessage))

\* generateImageVertex (src/lib/vertex.ts): what /api/vertex does with one call.
\* body is the parsed JSON: an error text ("" when the field is absent) and
\* whether the base64 field is there
VertexResponse(net, status, jsonOk, errorText, hasBase64, bytes) ==
    [net |-> net, status |-> status, jsonOk |-> jsonOk, errorText |-> errorText,
     hasBase64 |-> hasBase64, bytes |-> bytes]

VertexResponses(b) ==
    {VertexResponse("ok", 200, TRUE, "", TRUE, b),
     VertexResponse("ok", 200, TRUE, "", FALSE, b),
     VertexResponse("ok", 200, FALSE, "", FALSE, b),
     VertexResponse("ok", 500, TRUE, "No image bytes in response", FALSE, b),
     VertexResponse("ok", 500, TRUE, "", FALSE, b),
     VertexResponse("ok", 404, FALSE, "", FALSE, b),
     VertexResponse("error", 0, FALSE, "", FALSE, b)}

\* the value of a field that is not there
Undefined == [undefined |-> TRUE]

VertexStatusMessage == "Vertex API Error: status"

generateImageVertex(prompt, options, resp) ==
    IF resp.net = "error" THEN Threw(ErrorOf(FetchFailedMessage))
    ELSE IF ~resp.jsonOk THEN Threw(ErrorOf(JsonSyntaxMessage))
    ELSE IF ~HttpOk(resp.status)
         THEN Threw(ErrorOf(IF resp.errorText # "" THEN resp.errorText
                            ELSE VertexStatusMessage))
    ELSE IF resp.hasBase64 THEN Returned(Base64(resp.bytes))
    ELSE Returned(Undefined)

\* answers of the Gemini endpoint whose image part carries an empty data field
GeminiEnvelopes(b) ==
    GeminiResponses(b)
    \cup {GeminiResponse("ok", "ok", 200, TRUE, <<InlinePart(<<"image", "png">>, <<>>)>>)}

\* ------------------------------------------------------------ aspect ratios

\* the options of the aspect-ratio select of the page
LogicalRatios == {"1:1", "2:3", "3:2", "9:16", "16:9"}

\* values an aspectRatio argument can take: absent (""), the logical ratios,
\* the provider's own ratios, and a ratio nobody lists
AspectInputs == {""} \cup LogicalRatios \cup {"3:4", "4:3", "5:4"}

\* "Supported" in the comment of the Vertex route
VertexSupported == {"1:1", "9:16", "16:9", "3:4", "4:3"}

\* the if/else-if chain of the Vertex route
VertexAspectRatioPassThrough(aspectRatio) == aspectRatio

VertexAspectRatio(aspectRatio) ==
    IF aspectRatio = "1:1" THEN "1:1"
    ELSE IF aspectRatio = "9:16" THEN "9:16"
    ELSE IF aspectRatio = "16:9" THEN "16:9"
    ELSE IF aspectRatio = "3:4" THEN "3:4"
    ELSE IF aspectRatio = "4:3" THEN "4:3"
    ELSE IF aspectRatio = "2:3" THEN "3:4"
    ELSE IF aspectRatio = "3:2" THEN "4:3"
    ELSE "3:4"

\* aspectRatio: options.aspectRatio || '2:3' in the body generateImageVertex posts
VertexRequestRatio(options) ==
    IF options.aspectRatio = "" THEN "2:3" ELSE options.aspectRatio

Size(w, h) == [width |-> w, height |-> h]

\* the options of generateImageFal; 0 and "" stand for an absent field
FalOptions ==
    [aspectRatio : AspectInputs, width : {0, 512}, height : {0, 768}]

\* prompt.includes("Resolution: 2K") on a prompt made of text segments
Includes2K(prompt) ==
    \E j \in 1..Len(prompt) : prompt[j] \in {"Resolution: 2K", "Output Resolution: 2K"}

\* imageSize of generateImageFal
FalImageSize(options, prompt) ==
    IF options.width # 0 /\ options.height # 0
    THEN Size(options.width, options.height)
    ELSE IF options.aspectRatio # ""
    THEN IF options.aspectRatio = "2:3" /\ Includes2K(prompt)
         THEN Size(1696, 2528)
         ELSE IF options.aspectRatio = "2:3" THEN Size(832, 1216)
         ELSE IF options.aspectRatio = "3:2" THEN Size(1216, 832)
         ELSE IF options.aspectRatio = "16:9" THEN Size(1360, 768)
         ELSE IF options.aspectRatio = "9:16" THEN Size(768, 1360)
         ELSE Size(1024, 1024)
    ELSE Size(1024, 1024)

\* ------------------------------------------------------- request bodies

\* `\n\nAspect Ratio: ${options.aspectRatio}`
AspectDirective(ratio) ==
    CASE ratio = "1:1" -> "Aspect Ratio: 1:1"
      [] ratio = "2:3" -> "Aspect Ratio: 2:3"
      [] ratio = "3:2" -> "Aspect Ratio: 3:2"
      [] ratio = "9:16" -> "Aspect Ratio: 9:16"
      [] ratio = "16:9" -> "Aspect Ratio: 16:9"
      [] ratio = "3:4" -> "Aspect Ratio: 3:4"
      [] ratio = "4:3" -> "Aspect Ratio: 4:3"
      [] OTHER -> "Aspect Ratio: 5:4"

ResolutionBooster == "Output Resolution: 2K"
QualityBooster == "Image Quality: HD, High Definition"
StyleTag == "Style: Manga style, anime style, high quality."
DetailBooster == "Quality: Masterpiece, best quality, highly detailed."

\* enhancedPrompt of generateImage
GeminiEnhancedPrompt(prompt, options) ==
    prompt
    \o (IF options.aspectRatio # ""
        THEN <<AspectDirective(options.aspectRatio)>>
             \o (IF options.aspectRatio = "2:3"
                 THEN <<"Target Dimensions: 1696x2528 pixels">>
                 ELSE IF options.aspectRatio = "3:2"
                 THEN <<"Target Dimensions: 2528x1696 pixels">>
                 ELSE <<>>)
        ELSE <<>>)
    \o <<ResolutionBooster, QualityBooster, StyleTag, DetailBooster>>

\* the body generateImage posts: the text part, then the reference images
GeminiRequestBody(prompt, referenceImages, options) ==
    [prompt |-> GeminiEnhancedPrompt(prompt, options),
     images |-> referenceImages]

\* enhancedPrompt of generateImageFal
FalEnhancedPrompt(prompt) == prompt \o <<StyleTag>>

\* the body generateImageFal posts
FalRequestBody(prompt, options) ==
    [prompt |-> prompt,
     image_size |-> FalImageSize(options, prompt)]

\* ------------------------------------------------ image store (lib/db getImage)

ImageRecord(id) == [present |-> TRUE, data |-> id, type |-> "image/png"]
NoRecord == [present |-> FALSE, data |-> "", type |-> ""]

\* db.get(STORE_NAME, id): the record, or undefined
getImage(store, id) == IF id \in store THEN ImageRecord(id) ELSE NoRecord

DbErrorMessage == "IndexedDB request failed"

\* selectedImageIds.map(getImage) and the filter of the records found
\* the store after the getImage calls, which read it in readonly transactions
StoreAfterLookupsConsuming(store, ids) == store \ {ids[j] : j \in 1..Len(ids)}

StoreAfterLookups(store, ids) == store

ResolveReferencesKeepingMissing(store, ids) ==
    [j \in 1..Len(ids) |->
        [data |-> getImage(store, ids[j]).data, type |-> getImage(store, ids[j]).type]]

ResolveReferences(store, ids) ==
    LET selectedBlobs == [j \in 1..Len(ids) |-> getImage(store, ids[j])]
        validImages == SelectSeq(selectedBlobs, LAMBDA rec : rec.present)
    IN  [j \in 1..Len(validImages) |->
            [data |-> validImages[j].data, type |-> validImages[j].type]]


\* ------------------------------------------------------- state of the page

VARIABLES
    apiKey,             \* useState(''): Gemini key read from localStorage at mount
    falApiKey,          \* useState(''): fal key read from localStorage at mount
    isGenerating,       \* busy flag; disables the generate button
    generatedImages,    \* the gallery: data URLs, in page order
    statusMessage,      \* the progress text
    error,              \* the error text, "" when none
    dbImages,           \* ids of the records in the IndexedDB images store
    runs,               \* the invocations of handleGenerate that passed the
                        \* credential checks: locals, position, and the calls
                        \* each has issued
    lastOp,             \* the handler segment that ran last, its run, and the
                        \* provider selected when it was a click
    probe               \* the last direct call of a library function: its
                        \* arguments, what the environment answered, its result

vars == <<apiKey, falApiKey, isGenerating, generatedImages, statusMessage, error,
          dbImages, runs, lastOp, probe>>

\* no library function has been called directly
NoProbe == [fn |-> "none"]

keyVars == <<apiKey, falApiKey>>
outVars == <<isGenerating, generatedImages, statusMessage, error>>

Op(name, run, provider) == [name |-> name, run |-> run, provider |-> provider]

ConsistencyInstruction == "[System Instruction]: Use the attached images as strict character references."

Init ==
    /\ apiKey \in GeminiKeys
    /\ falApiKey \in FalKeys
    /\ isGenerating = FALSE
    /\ generatedImages = <<>>
    /\ statusMessage = StatusEmpty
    /\ error = ""
    /\ dbImages = ImageIds
    /\ runs = <<>>
    /\ lastOp = Op("mount", 0, "")
    /\ probe = NoProbe

\* ------------------------------------------------------------ form controls

\* The form fields (prompt, pageCount, provider, inputMode, selectedImageIds)
\* are written by their controls only and read by handleGenerate only, through
\* the closure of the render in which the button is clicked: a click takes
\* them as its input, any value the controls can produce.

\* prev.includes(id) ? prev.filter(i => i !== id) : [...prev, id]
toggleImageSelection(prev, id) ==
    IF \E j \in 1..Len(prev) : prev[j] = id
    THEN SelectSeq(prev, LAMBDA x : x # id)
    ELSE Append(prev, id)

\* the selections that clicks on the reference images produce from []
RECURSIVE ToggleClosure(_)
ToggleClosure(S) ==
    LET T == S \cup {toggleImageSelection(sel, id) : sel \in S, id \in ImageIds}
    IN  IF T = S THEN S ELSE ToggleClosure(T)

Selections == ToggleClosure({<<>>})

\* the forms with a given prompt and provider at the moment of a click
Requests(prompt, provider) ==
    [prompt : {prompt}, pageCount : PageCounts, provider : {provider},
     inputMode : InputModes, selectedImageIds : Selections]

\* the assets page deletes a stored image (the selection is not refreshed)
deleteImage(id) ==
    /\ id \in dbImages
    /\ dbImages' = dbImages \ {id}
    /\ UNCHANGED <<keyVars, outVars, runs, lastOp, probe>>

\* ------------------------------------------------------------ handleGenerate

\* disabled={isGenerating || !prompt}
GenerateButtonIgnoringBusy(prompt) == prompt # ""

GenerateButtonEnabled(prompt) == ~isGenerating /\ prompt # ""

PlannerCall(fn, key, n) == [fn |-> fn, apiKey |-> key, pageCount |-> n, state |-> "pending"]
ImageCall(page, fn, key, text) ==
    [page |-> page, fn |-> fn, apiKey |-> key, prompt |-> text, state |-> "pending"]

\* the locals of a run right after the synchronous head of handleGenerate
NewRun(req) ==
    [pc |-> "awaitRefs", outcome |-> "running",
     provider |-> req.provider, inputMode |-> req.inputMode,
     pageCount |-> req.pageCount,
     lookups |-> req.selectedImageIds, validImages |-> <<>>,
     prompts |-> <<>>, newImages |-> <<>>, i |-> 0,
     plannerCalls |-> <<>>, imageCalls |-> <<>>]

\* A run that has ended keeps only its outcome once a later run starts: its
\* locals are unreachable and its calls are settled.
Retire(rec) ==
    IF rec.pc = "done"
    THEN [rec EXCEPT !.pc = "retired", !.provider = "", !.inputMode = "",
                     !.pageCount = 0, !.lookups = <<>>, !.validImages = <<>>,
                     !.prompts = <<>>, !.newImages = <<>>, !.i = 0,
                     !.plannerCalls = <<>>, !.imageCalls = <<>>]
    ELSE rec

\* mark the last call of a log as settled
SettleAndReissue(calls, state) ==
    Append([calls EXCEPT ![Len(calls)].state = state], calls[Len(calls)])

Settle(calls, state) == [calls EXCEPT ![Len(calls)].state = state]

\* lines 296-303: the message of the credential check, "" when it passes
CredentialErrorGeminiOnly(provider) ==
    IF provider = "gemini" /\ apiKey = "" THEN NoGeminiKeyMessage ELSE ""

CredentialError(provider) ==
    IF provider = "gemini" /\ apiKey = "" THEN NoGeminiKeyMessage
    ELSE IF provider = "fal" /\ falApiKey = "" THEN NoFalKeyMessage
    ELSE ""

\* lines 305-317: the state resets and the getImage calls, up to the first await
StartRunKeepGallery(req) ==
    /\ Len(runs) < MaxRuns
    /\ isGenerating' = TRUE
    /\ error' = ""
    /\ statusMessage' = StatusPlanning
    /\ UNCHANGED generatedImages
    /\ runs' = Append([j \in 1..Len(runs) |-> Retire(runs[j])], NewRun(req))
    /\ lastOp' = Op("started", Len(runs) + 1, req.provider)

StartRun(req) ==
    /\ Len(runs) < MaxRuns
    /\ isGenerating' = TRUE
    /\ error' = ""
    /\ statusMessage' = StatusPlanning
    /\ generatedImages' = <<>>
    /\ runs' = Append([j \in 1..Len(runs) |-> Retire(runs[j])], NewRun(req))
    /\ lastOp' = Op("started", Len(runs) + 1, req.provider)

\* lines 292-317: the handler up to its first await; it has no busy check of
\* its own
HandleGenerateBody(prompt, provider) ==
    /\ IF Trim(prompt) = ""
       THEN /\ lastOp' = Op("blankPrompt", 0, provider)
            /\ UNCHANGED <<outVars, runs>>
       ELSE IF CredentialError(provider) # ""
       THEN /\ error' = CredentialError(provider)
            /\ lastOp' = Op("missingCredential", 0, provider)
            /\ UNCHANGED <<isGenerating, generatedImages, statusMessage, runs>>
       ELSE \E req \in Requests(prompt, provider) : StartRun(req)
    /\ UNCHANGED <<keyVars, dbImages, probe>>

\* onClick={handleGenerate} of the button (lines 539-541)
HandleGenerate(prompt, provider) ==
    /\ GenerateButtonEnabled(prompt)
    /\ HandleGenerateBody(prompt, provider)

\* the image prompt of page rec.i + 1 (lines 341-346)
ImagePromptFirstOnly(rec) ==
    <<rec.prompts[1]>>
        \o (IF Len(rec.validImages) > 0 THEN <<ConsistencyInstruction>> ELSE <<>>)

ImagePrompt(rec) ==
    <<rec.prompts[rec.i + 1]>>
        \o (IF Len(rec.validImages) > 0 THEN <<ConsistencyInstruction>> ELSE <<>>)

\* the adapter call of page p (lines 348-353)
AdapterCall(rec, p) ==
    IF rec.provider = "fal"
    THEN ImageCall(p, "generateImageFal", falApiKey, ImagePrompt([rec EXCEPT !.i = p - 1]))
    ELSE ImageCall(p, "generateImage", apiKey, ImagePrompt([rec EXCEPT !.i = p - 1]))

\* lines 339-353: the head of one loop iteration, up to the await of the adapter
RECURSIVE DispatchAllPages(_)
DispatchAllPages(rec) ==
    LET p == Len(rec.imageCalls) + 1
    IN  IF p > Len(rec.prompts)
        THEN [rec EXCEPT !.pc = "awaitImage"]
        ELSE DispatchAllPages([rec EXCEPT !.imageCalls = Append(@, AdapterCall(rec, p))])

DispatchPage(rec) ==
    [rec EXCEPT
        !.pc = "awaitImage",
        !.imageCalls = Append(@, AdapterCall(rec, rec.i + 1))]

\* the loop ran out: finally { setIsGenerating(false); setStatusMessage('') }
Complete(r, rec) ==
    /\ isGenerating' = FALSE
    /\ statusMessage' = StatusEmpty
    /\ runs' = [runs EXCEPT ![r] = [rec EXCEPT !.pc = "done", !.outcome = "completed"]]
    /\ UNCHANGED error

\* for (let i = 0; i < prompts.length; i++): enter the next iteration or leave
LoopStep(r, rec) ==
    IF rec.i < Len(rec.prompts)
    THEN /\ statusMessage' = StatusPage(rec.i + 1, Len(rec.prompts))
         /\ runs' = [runs EXCEPT ![r] = DispatchPage(rec)]
         /\ UNCHANGED <<isGenerating, error>>
    ELSE Complete(r, rec)

\* catch (err) { setError(...) } finally { setIsGenerating(false); setStatusMessage('') }
AbortDiscarding(r, rec, e) ==
    /\ error' = CatchMessage(e)
    /\ isGenerating' = FALSE
    /\ statusMessage' = StatusEmpty
    /\ generatedImages' = <<>>
    /\ runs' = [runs EXCEPT ![r] = [rec EXCEPT !.pc = "done", !.outcome = "aborted"]]

AbortSkipPage(r, rec, e) ==
    /\ error' = CatchMessage(e)
    /\ UNCHANGED generatedImages
    /\ IF rec.pc = "awaitImage" /\ rec.i + 1 < Len(rec.prompts)
       THEN /\ statusMessage' = StatusPage(rec.i + 2, Len(rec.prompts))
            /\ runs' = [runs EXCEPT ![r] = DispatchPage([rec EXCEPT !.i = @ + 1])]
            /\ UNCHANGED isGenerating
       ELSE /\ isGenerating' = FALSE
            /\ statusMessage' = StatusEmpty
            /\ runs' = [runs EXCEPT ![r] =
                          [rec EXCEPT !.pc = "done", !.outcome = "aborted"]]

\* a catch without the finally block
AbortKeepBusy(r, rec, e) ==
    /\ error' = CatchMessage(e)
    /\ UNCHANGED <<isGenerating, statusMessage, generatedImages>>
    /\ runs' = [runs EXCEPT ![r] = [rec EXCEPT !.pc = "done", !.outcome = "aborted"]]

Abort(r, rec, e) ==
    /\ error' = CatchMessage(e)
    /\ isGenerating' = FALSE
    /\ statusMessage' = StatusEmpty
    /\ UNCHANGED generatedImages
    /\ runs' = [runs EXCEPT ![r] = [rec EXCEPT !.pc = "done", !.outcome = "aborted"]]

\* lines 325-332: the planner call of the run, by input mode
CallPlannerWithProviderKey(rec) ==
    LET key == IF rec.provider = "fal" THEN falApiKey ELSE apiKey
    IN  IF rec.inputMode = "script"
        THEN PlannerCall("generatePromptsFromScript", key, rec.pageCount)
        ELSE PlannerCall("generateMangaPrompts", key, rec.pageCount)

CallPlanner(rec) ==
    IF rec.inputMode = "script"
    THEN PlannerCall("generatePromptsFromScript", apiKey, rec.pageCount)
    ELSE PlannerCall("generateMangaPrompts", apiKey, rec.pageCount)

\* line 321: if (!apiKey) throw
PlannerKeyMissing == apiKey = ""

\* lines 312-332: the reference lookups settle; the Gemini key check; the
\* planner call is issued
RefsResolved(r) ==
    /\ runs[r].pc = "awaitRefs"
    /\ lastOp' = Op("RefsResolved", r, "")
    /\ dbImages' = StoreAfterLookups(dbImages, runs[r].lookups)
    /\ \E dbOk \in BOOLEAN :
         LET rec == [runs[r] EXCEPT
                        !.validImages = ResolveReferences(dbImages, runs[r].lookups)]
         IN  IF ~dbOk /\ runs[r].lookups # <<>>
             THEN Abort(r, runs[r], ErrorOf(DbErrorMessage))
             ELSE IF PlannerKeyMissing
             THEN Abort(r, rec, ErrorOf(NeedGeminiKeyMessage))
             ELSE /\ runs' = [runs EXCEPT ![r] =
                        [rec EXCEPT !.pc = "awaitPlanner",
                                    !.plannerCalls = Append(@, CallPlanner(rec))]]
                  /\ UNCHANGED <<isGenerating, statusMessage, error, generatedImages>>
    /\ UNCHANGED <<keyVars, probe>>

\* lines 325-339: the planner settles; the loop is entered
PlannerResponse(r) ==
    /\ runs[r].pc = "awaitPlanner"
    /\ runs[r].plannerCalls[Len(runs[r].plannerCalls)].state = "pending"
    /\ lastOp' = Op("PlannerResponse", r, "")
    /\ LET call == runs[r].plannerCalls[Len(runs[r].plannerCalls)]
       IN  \E result \in
                IF call.fn = "generatePromptsFromScript"
                THEN {generatePromptsFromScript(call.apiKey, call.pageCount, up) :
                         up \in PlannerUpstreams}
                ELSE {generateMangaPrompts(call.apiKey, call.pageCount,
                                           runs[r].validImages, up) :
                         up \in PlannerUpstreams} :
             IF ~result.ok
             THEN Abort(r, [runs[r] EXCEPT !.plannerCalls = Settle(@, "threw")],
                        result.err)
             ELSE /\ LoopStep(r, [runs[r] EXCEPT
                                     !.plannerCalls = Settle(@, "returned"),
                                     !.prompts = result.value,
                                     !.newImages = <<>>,
                                     !.i = 0])
                  /\ UNCHANGED generatedImages
    /\ UNCHANGED <<keyVars, dbImages, probe>>

\* newImages.push(imageUrl) (line 356)
PushImageReplacing(newImages, imageUrl) == <<imageUrl>>

PushImage(newImages, imageUrl) == Append(newImages, imageUrl)

\* lines 348-358: the adapter settles; the image is appended; i++
ImageResponse(r) ==
    /\ runs[r].pc = "awaitImage"
    /\ lastOp' = Op("ImageResponse", r, "")
    /\ \E c \in 1..Len(runs[r].imageCalls) :
         /\ runs[r].imageCalls[c].state = "pending"
         /\ \A d \in 1..(c - 1) : runs[r].imageCalls[d].state # "pending"
         /\ LET call == runs[r].imageCalls[c]
            IN  \E result \in
                   IF call.fn = "generateImageFal"
                   THEN {generateImageFal(call.apiKey, call.prompt, resp) :
                            resp \in FalResponses(ImageBytes(r, call.page))}
                   ELSE {generateImage(call.apiKey, call.prompt, runs[r].validImages,
                                       resp) :
                            resp \in GeminiResponses(ImageBytes(r, call.page))} :
                  IF ~result.ok
                  THEN Abort(r, [runs[r] EXCEPT !.imageCalls[c].state = "threw"],
                             result.err)
                  ELSE LET newImages ==
                               PushImage(runs[r].newImages, DataUrl(result.value))
                       IN  /\ generatedImages' = newImages
                           /\ LoopStep(r, [runs[r] EXCEPT
                                              !.imageCalls[c].state = "returned",
                                              !.newImages = newImages,
                                              !.i = @ + 1])
    /\ UNCHANGED <<keyVars, dbImages, probe>>

Next ==
    \/ \E id \in ImageIds : deleteImage(id)
    \/ \E prompt \in PromptTexts, provider \in Providers :
           HandleGenerate(prompt, provider)
    \/ \E r \in 1..Len(runs) : RefsResolved(r)
    \/ \E r \in 1..Len(runs) : PlannerResponse(r)
    \/ \E r \in 1..Len(runs) : ImageResponse(r)

Spec == Init /\ [][Next]_vars

\* ---------------------------------------------- every awaited call settles

\* the continuation of an await of some run
Continue ==
    \E r \in 1..Len(runs) : RefsResolved(r) \/ PlannerResponse(r) \/ ImageResponse(r)

\* Every awaited call settles, and the event loop then runs the continuation of
\* the await.
FairSpec == Init /\ [][Next]_vars /\ WF_vars(Continue)

\* ------------------------------------------ a caller that launches runs at once

\* handleGenerate is called a second time while its first run is in flight, from
\* the closure of the same render (the form is unchanged and the checks of lines
\* 293-303 pass again), by a caller that does not go through the disabled button
ConcurrentLaunch ==
    /\ Len(runs) = 1
    /\ runs[1].outcome = "running"
    /\ StartRun([provider |-> runs[1].provider, inputMode |-> runs[1].inputMode,
                 pageCount |-> runs[1].pageCount,
                 selectedImageIds |-> runs[1].lookups])
    /\ UNCHANGED <<keyVars, dbImages, probe>>

\* both keys are stored
ReentrantInit ==
    /\ Init
    /\ apiKey # ""
    /\ falApiKey # ""

\* the first run is started with the button, the second by the caller
ReentrantNext ==
    \/ \E prompt \in PromptTexts, provider \in Providers :
           HandleGenerate(prompt, provider) /\ runs = <<>>
    \/ ConcurrentLaunch
    \/ \E r \in 1..Len(runs) : RefsResolved(r)
    \/ \E r \in 1..Len(runs) : PlannerResponse(r)
    \/ \E r \in 1..Len(runs) : ImageResponse(r)

ReentrantSpec == ReentrantInit /\ [][ReentrantNext]_vars

\* --------------------------------------------- a network that may stay silent

\* mark the calls of a log that are still awaited as never answered
Unanswered(calls) ==
    [c \in 1..Len(calls) |->
        IF calls[c].state = "pending"
        THEN [calls[c] EXCEPT !.state = "unanswered"]
        ELSE calls[c]]

\* The fetch of the awaited call never settles: no response and no network
\* error arrives. The adapters pass no AbortSignal and race no timer against
\* the fetch, so nothing in the program settles the call either, and the
\* handler stays at its await.
NoResponse(r) ==
    /\ runs[r].pc \in {"awaitPlanner", "awaitImage"}
    /\ lastOp' = Op("NoResponse", r, "")
    /\ runs' = [runs EXCEPT ![r] =
                  IF runs[r].pc = "awaitPlanner"
                  THEN [@ EXCEPT !.plannerCalls = Unanswered(@)]
                  ELSE [@ EXCEPT !.imageCalls = Unanswered(@)]]
    /\ runs'[r] # runs[r]
    /\ UNCHANGED <<keyVars, dbImages, probe, isGenerating, statusMessage, error,
                   generatedImages>>

NetNext ==
    \/ Next
    \/ \E r \in 1..Len(runs) : NoResponse(r)

\* The event loop runs the continuation of every promise that settles: the
\* lookups of the local image store always settle, and a provider call that is
\* answered is handled. Nothing obliges the network to answer.
NetSpec ==
    /\ Init
    /\ [][NetNext]_vars
    /\ WF_vars(\E r \in 1..Len(runs) : RefsResolved(r))
    /\ WF_vars(\E r \in 1..Len(runs) : PlannerResponse(r))
    /\ WF_vars(\E r \in 1..Len(runs) : ImageResponse(r))

\* ------------------------------------------- direct calls of the library
\*
\* The functions of src/lib and the reference resolution of handleGenerate,
\* each called on its own with arguments and environment answers drawn from
\* small sets; probe records the call and its result.

pageVars == <<apiKey, falApiKey, isGenerating, generatedImages, statusMessage,
              error, dbImages, runs, lastOp>>

LibInit ==
    /\ apiKey = "gemini-key"
    /\ falApiKey = "fal-key"
    /\ isGenerating = FALSE
    /\ generatedImages = <<>>
    /\ statusMessage = StatusEmpty
    /\ error = ""
    /\ dbImages = ImageIds
    /\ runs = <<>>
    /\ lastOp = Op("mount", 0, "")
    /\ probe = NoProbe

RefName == <<"ref1", "ref2", "ref3", "ref4", "ref5">>
LibImageIds == {RefName[j] : j \in 1..MaxRefs}

\* lists of selected ids, repetitions included
IdLists == UNION {[1..n -> LibImageIds] : n \in 0..MaxRefs}

\* lines 312-318 on their own: Promise.all rejects when a getImage rejects
ResolveOutcome(store, ids, dbOk) ==
    IF ~dbOk /\ ids # <<>>
    THEN Threw(ErrorOf(DbErrorMessage))
    ELSE Returned(ResolveReferences(store, ids))

CallResolveReferences ==
    /\ probe = NoProbe
    /\ \E store \in SUBSET LibImageIds, ids \in IdLists, dbOk \in BOOLEAN :
         probe' = [fn |-> "resolveReferences", store |-> store, ids |-> ids,
                   dbOk |-> dbOk, result |-> ResolveOutcome(store, ids, dbOk)]
    /\ UNCHANGED pageVars

\* prompts handed to an adapter: text segments
PromptSamples == {<<"pA">>, <<"pA", "Resolution: 2K">>, <<"pB", ConsistencyInstruction>>}

CallVertexRoute ==
    /\ probe = NoProbe
    /\ \E options \in [aspectRatio : AspectInputs] :
         probe' = [fn |-> "vertexRoute", options |-> options,
                   aspectRatio |-> VertexRequestRatio(options),
                   result |-> VertexAspectRatio(VertexRequestRatio(options))]
    /\ UNCHANGED pageVars

CallFalImageSize ==
    /\ probe = NoProbe
    /\ \E options \in FalOptions, prompt \in PromptSamples :
         probe' = [fn |-> "falImageSize", options |-> options, prompt |-> prompt,
                   result |-> FalImageSize(options, prompt)]
    /\ UNCHANGED pageVars

\* the image bytes a provider answers a direct call with
ProbeBytes == ImageBytes(0, 1)

\* reference images handed to generateImage
ProbeReferences == {<<>>, <<[data |-> "ref1", type |-> "image/png"]>>}

CallGenerateImage ==
    /\ probe = NoProbe
    /\ \E prompt \in PromptSamples, refs \in ProbeReferences,
          options \in [aspectRatio : AspectInputs],
          resp \in GeminiEnvelopes(ProbeBytes) :
         probe' = [fn |-> "generateImage", prompt |-> prompt, refs |-> refs,
                   options |-> options, resp |-> resp,
                   body |-> GeminiRequestBody(prompt, refs, options),
                   result |-> generateImage(apiKey, prompt, refs, resp)]
    /\ UNCHANGED pageVars

CallGenerateImageFal ==
    /\ probe = NoProbe
    /\ \E prompt \in PromptSamples, options \in FalOptions,
          resp \in FalResponses(ProbeBytes) :
         probe' = [fn |-> "generateImageFal", prompt |-> prompt,
                   options |-> options, resp |-> resp,
                   body |-> FalRequestBody(prompt, options),
                   result |-> generateImageFal(falApiKey, prompt, resp)]
    /\ UNCHANGED pageVars

CallGenerateImageVertex ==
    /\ probe = NoProbe
    /\ \E prompt \in PromptSamples, options \in [aspectRatio : AspectInputs],
          resp \in VertexResponses(ProbeBytes) :
         probe' = [fn |-> "generateImageVertex", prompt |-> prompt,
                   options |-> options, resp |-> resp,
                   result |-> generateImageVertex(prompt, options, resp)]
    /\ UNCHANGED pageVars

\* the answers of the SDK to an image request of a server action
SdkAnswers ==
    {SdkAnswer("ok", <<InlinePart(<<"image", "png">>, ProbeBytes)>>),
     SdkAnswer("ok", <<TextPart>>),
     SdkAnswer("error", <<>>)}

CallGenerateImageAction ==
    /\ probe = NoProbe
    /\ \E config \in GeminiConfigs, refs \in ProbeReferences, answer \in SdkAnswers :
         probe' = [fn |-> "generateImageAction", config |-> config,
                   outcome |-> generateImageAction(config, <<"pA">>, refs,
                                   [aspectRatio |-> "2:3"], answer)]
    /\ UNCHANGED pageVars

CallGenerateMangaPromptsAction ==
    /\ probe = NoProbe
    /\ \E config \in GeminiConfigs, isScriptMode \in BOOLEAN,
          up \in PlannerUpstreams :
         probe' = [fn |-> "generateMangaPromptsAction", config |-> config,
                   outcome |-> generateMangaPromptsAction(config, "story",
                                   MinPageCount, <<>>, isScriptMode, up)]
    /\ UNCHANGED pageVars

CallAnalyzeCharacterFeatures ==
    /\ probe = NoProbe
    /\ \E key \in GeminiKeys, reader \in {"ok", "error"}, answers \in AnalysisAnswers :
         probe' = [fn |-> "analyzeCharacterFeatures", apiKey |-> key,
                   reader |-> reader, answers |-> answers,
                   outcome |-> analyzeCharacterFeatures(key, reader, answers)]
    /\ UNCHANGED pageVars

\* lines 341-353 on their own: the image prompt of one page and the body the
\* adapter of the selected provider posts for it
CallDispatchPage ==
    /\ probe = NoProbe
    /\ \E j \in 1..MaxPrompts, refs \in ProbeReferences, provider \in Providers,
          aspectRatio \in LogicalRatios :
         LET rec == [prompts |-> <<PromptPool[j]>>, i |-> 0, validImages |-> refs,
                     provider |-> provider]
             call == AdapterCall(rec, 1)
         IN  probe' = [fn |-> "dispatchPage", planned |-> PromptPool[j],
                       refs |-> refs, provider |-> provider,
                       aspectRatio |-> aspectRatio,
                       body |-> IF call.fn = "generateImageFal"
                                THEN FalRequestBody(call.prompt,
                                         [aspectRatio |-> aspectRatio,
                                          width |-> 0, height |-> 0])
                                ELSE GeminiRequestBody(call.prompt, refs,
                                         [aspectRatio |-> aspectRatio])]
    /\ UNCHANGED pageVars

\* the call has returned to its caller
LibReturn ==
    /\ probe # NoProbe
    /\ probe' = NoProbe
    /\ UNCHANGED pageVars

LibNext ==
    \/ CallResolveReferences
    \/ CallVertexRoute
    \/ CallFalImageSize
    \/ CallGenerateImage
    \/ CallGenerateImageFal
    \/ CallGenerateImageVertex
    \/ CallDispatchPage
    \/ CallGenerateImageAction
    \/ CallGenerateMangaPromptsAction
    \/ CallAnalyzeCharacterFeatures
    \/ LibReturn

LibSpec == LibInit /\ [][LibNext]_vars

\* ---------------------------------------------------------------- vocabulary

RunIds == 1..Len(runs)

\* the run's locals and calls are still recorded
Live(r) == runs[r].pc # "retired"

\* run r has ended and no segment of handleGenerate has run since
JustEnded(r) == runs[r].pc = "done" /\ lastOp.run = r

LastCall(calls) == calls[Len(calls)]

PlannerThrew(r) ==
    runs[r].plannerCalls # <<>> /\ LastCall(runs[r].plannerCalls).state = "threw"

PlannerReturned(r) ==
    runs[r].plannerCalls # <<>> /\ LastCall(runs[r].plannerCalls).state = "returned"

\* the pages of run r whose adapter call threw
FailedPages(r) ==
    {runs[r].imageCalls[j].page :
        j \in {k \in 1..Len(runs[r].imageCalls) : runs[r].imageCalls[k].state = "threw"}}

\* the gallery entry of the image the provider answered page j of run r with
PageImage(r, j) == DataUrl(Base64(ImageBytes(r, j)))

\* the last segment was a click on the generate button
Clicked == lastOp.name \in {"blankPrompt", "missingCredential", "started"}

\* ... made while the credential of the selected provider was missing
SelectedCredentialMissing ==
    \/ lastOp.provider = "gemini" /\ apiKey = ""
    \/ lastOp.provider = "fal" /\ falApiKey = ""

\* ------------------------------------------------------------------- claims

\* C1: in every state of the latest run the gallery holds at most the requested
\* pageCount images, and exactly pageCount once the run has completed without
\* an error.
C1_GalleryWithinPageCount ==
    \A r \in RunIds :
        (r = Len(runs) /\ Live(r)) =>
            /\ Len(generatedImages) <= runs[r].pageCount
            /\ runs[r].outcome = "completed" =>
                   Len(generatedImages) = runs[r].pageCount

\* C2: a planner call that returns, returns exactly pageCount strings (any
\* other upstream output makes it throw).
C2_PlannerReturnsPageCount ==
    \A r \in RunIds :
        (Live(r) /\ PlannerReturned(r)) => Len(runs[r].prompts) = runs[r].pageCount

\* C3: when the upstream output holds fewer prompts than pageCount, the run
\* fails at planning and issues no image-generation call.
C3_ShortPlanNoDispatch ==
    \A r \in RunIds :
        (Live(r) /\ PlannerReturned(r) /\ Len(runs[r].prompts) < runs[r].pageCount) =>
            /\ runs[r].imageCalls = <<>>
            /\ runs[r].pc = "done" => runs[r].outcome = "aborted"

\* C4: if the planner call throws, the run ends aborted with the error set, no
\* image-generation call is ever issued, and the gallery is empty at the end.
C4_PlannerFailureAborts ==
    \A r \in RunIds :
        (Live(r) /\ PlannerThrew(r)) =>
            /\ runs[r].pc = "done"
            /\ runs[r].outcome = "aborted"
            /\ runs[r].imageCalls = <<>>
            /\ JustEnded(r) =>
                   /\ error # ""
                   /\ generatedImages = <<>>
                   /\ ~isGenerating

C4_Witness ==
    \E r \in RunIds :
        /\ r > 1
        /\ runs[1].outcome = "completed"
        /\ PlannerThrew(r)
        /\ JustEnded(r)
        /\ error = ParseFailedMessage

\* C5: image-generation calls of a run are strictly sequential: every call but
\* the last has returned successfully, so at most one is in flight.
C5_SequentialDispatch ==
    \A r \in RunIds :
        Live(r) =>
            /\ \A j \in 1..Len(runs[r].imageCalls) :
                   j < Len(runs[r].imageCalls) =>
                       runs[r].imageCalls[j].state = "returned"
            /\ Cardinality({j \in 1..Len(runs[r].imageCalls) :
                               runs[r].imageCalls[j].state = "pending"}) <= 1

C5_Witness ==
    \E r \in RunIds :
        /\ Len(runs[r].imageCalls) = 3
        /\ runs[r].imageCalls[1].state = "returned"
        /\ runs[r].imageCalls[2].state = "returned"
        /\ runs[r].imageCalls[3].state = "pending"

\* C6: if the provider fails on page k after succeeding on pages 1..k-1, the
\* run reports exactly the k-1 images of pages 1..k-1, in order, with an error,
\* and no call is issued for any page after k.
C6_FailureOnPageK ==
    \A r \in RunIds :
        \A k \in FailedPages(r) :
            /\ Len(runs[r].imageCalls) = k
            /\ \A j \in 1..k : runs[r].imageCalls[j].page = j
            /\ runs[r].pc = "done"
            /\ runs[r].outcome = "aborted"
            /\ JustEnded(r) =>
                   /\ generatedImages = [j \in 1..(k - 1) |-> PageImage(r, j)]
                   /\ error # ""

C6_Witness ==
    \E r \in RunIds :
        /\ 2 \in FailedPages(r)
        /\ Len(runs[r].prompts) = 3
        /\ Len(runs[r].imageCalls) = 2
        /\ JustEnded(r)
        /\ Len(generatedImages) = 1
        /\ error = GeminiHttpMessage

\* C7 as claimed: after a provider failure in the middle of a run the gallery
\* holds no image of the aborted run.
C7_AbortDiscardsPages ==
    \A r \in RunIds :
        (FailedPages(r) # {} /\ JustEnded(r)) => generatedImages = <<>>

\* C7 as amended: after a provider failure on page k the run is aborted (busy
\* flag and status cleared) and the gallery still holds the k-1 images the run
\* had completed.
C7_AbortKeepsPages ==
    \A r \in RunIds :
        (FailedPages(r) # {} /\ JustEnded(r)) =>
            /\ ~isGenerating
            /\ statusMessage = StatusEmpty
            /\ generatedImages = runs[r].newImages
            /\ \A k \in FailedPages(r) : Len(generatedImages) = k - 1

C7_Witness ==
    \E r \in RunIds :
        /\ runs[r].provider = "fal"
        /\ Len(runs[r].prompts) = 3
        /\ FailedPages(r) = {3}
        /\ JustEnded(r)
        /\ generatedImages = <<PageImage(r, 1), PageImage(r, 2)>>

\* C8 as claimed: a click with the selected provider's credential missing sets
\* a non-empty error, issues no call, and leaves isGenerating, statusMessage
\* and generatedImages as they were.
C8_MissingCredentialFailsFast ==
    [][(Clicked /\ SelectedCredentialMissing)' =>
          /\ error' # ""
          /\ UNCHANGED <<isGenerating, statusMessage, generatedImages, runs>>]_vars

\* C8 as amended: the same, for a click with a prompt that is not blank.
C8_MissingCredentialFailsFastNonBlank ==
    [][(Clicked /\ lastOp.name # "blankPrompt" /\ SelectedCredentialMissing)' =>
          /\ error' # ""
          /\ UNCHANGED <<isGenerating, statusMessage, generatedImages, runs>>]_vars

C8_Witness ==
    /\ lastOp.name = "missingCredential"
    /\ SelectedCredentialMissing
    /\ error \in {NoGeminiKeyMessage, NoFalKeyMessage}
    /\ Len(generatedImages) > 0
    /\ ~isGenerating

\* C9: every planner call is a Gemini planner call made with the Gemini key,
\* whatever image provider the run uses; a fal run without a Gemini key aborts
\* with an error before any planner or image-generation call.
C9_PlannerAlwaysGemini ==
    \A r \in RunIds :
        Live(r) =>
            /\ \A j \in 1..Len(runs[r].plannerCalls) :
                   /\ runs[r].plannerCalls[j].fn \in
                          {"generateMangaPrompts", "generatePromptsFromScript"}
                   /\ runs[r].plannerCalls[j].apiKey = apiKey
                   /\ runs[r].plannerCalls[j].apiKey # ""
            /\ (runs[r].provider = "fal" /\ apiKey = "") =>
                   /\ falApiKey # ""
                   /\ runs[r].plannerCalls = <<>>
                   /\ runs[r].imageCalls = <<>>
                   /\ runs[r].pc = "done" => runs[r].outcome = "aborted"
                   /\ JustEnded(r) => error # ""

C9_Witness ==
    \E r \in RunIds :
        /\ runs[r].provider = "fal"
        /\ PlannerReturned(r)
        /\ runs[r].plannerCalls[1].apiKey = "gemini-key"
        /\ runs[r].imageCalls # <<>>
        /\ runs[r].imageCalls[1].fn = "generateImageFal"
        /\ runs[r].imageCalls[1].apiKey = "fal-key"

\* C10: each planned prompt is dispatched at most once and in increasing index
\* order; in a run that completes without error each is dispatched exactly once.
C10_EachPromptOnce ==
    \A r \in RunIds :
        Live(r) =>
            /\ Len(runs[r].imageCalls) <= Len(runs[r].prompts)
            /\ \A j \in 1..Len(runs[r].imageCalls) :
                   /\ runs[r].imageCalls[j].page = j
                   /\ runs[r].imageCalls[j].prompt[1] = runs[r].prompts[j]
            /\ runs[r].outcome = "completed" =>
                   Len(runs[r].imageCalls) = Len(runs[r].prompts)

C10_Witness ==
    \E r \in RunIds :
        /\ runs[r].outcome = "completed"
        /\ Len(runs[r].prompts) = 3
        /\ Len(runs[r].imageCalls) = 3
        /\ Len(generatedImages) = 3

\* C11: while a run is in flight the gallery changes only by one image being
\* appended at its end: every entry already present keeps its position and
\* value, up to and including the step that ends the run.
C11_AppendOnly ==
    [][isGenerating =>
          \/ generatedImages' = generatedImages
          \/ /\ Len(generatedImages') = Len(generatedImages) + 1
             /\ SubSeq(generatedImages', 1, Len(generatedImages)) = generatedImages]_vars

C11_Witness ==
    \E r \in RunIds :
        /\ isGenerating
        /\ lastOp = Op("ImageResponse", r, "")
        /\ generatedImages = <<PageImage(r, 1), PageImage(r, 2)>>
        /\ runs[r].pc = "awaitImage"
\* C12: whenever the status shows page i of N, N is the requested pageCount and
\* exactly i-1 images have been appended; the index starts at 1 and advances
\* by one, each time together with the image of the page it leaves.
C12_ProgressConsistent ==
    [][statusMessage'.kind = "page" =>
          /\ statusMessage'.n = runs'[Len(runs')].pageCount
          /\ Len(generatedImages') = statusMessage'.i - 1
          /\ statusMessage' # statusMessage =>
                 IF statusMessage.kind = "page"
                 THEN /\ statusMessage'.i = statusMessage.i + 1
                      /\ Len(generatedImages') = Len(generatedImages) + 1
                 ELSE statusMessage'.i = 1]_vars
\* C13: reference resolution does not fail for a missing id: whenever the store
\* answers, it yields the {data, type} pairs of exactly the selected ids that
\* are in the store, in selection order, and omits the others.
C13_ResolutionOmitsMissing ==
    probe.fn = "resolveReferences" =>
        LET found == SelectSeq(probe.ids, LAMBDA id : id \in probe.store)
        IN  probe.dbOk =>
                /\ probe.result.ok
                /\ Len(probe.result.value) = Len(found)
                /\ \A j \in 1..Len(found) :
                       probe.result.value[j] = [data |-> found[j], type |-> "image/png"]

C13_Witness ==
    /\ probe.fn = "resolveReferences"
    /\ probe.ids = <<"ref1", "ref2", "ref3">>
    /\ probe.store = {"ref1", "ref3"}
    /\ probe.result.ok
    /\ Len(probe.result.value) = 2
    /\ probe.result.value[2].data = "ref3"
\* the size the table of generateImageFal gives a ratio
FalSizeOfRatio(ratio) ==
    IF ratio = "2:3" THEN Size(832, 1216)
    ELSE IF ratio = "3:2" THEN Size(1216, 832)
    ELSE IF ratio = "16:9" THEN Size(1360, 768)
    ELSE IF ratio = "9:16" THEN Size(768, 1360)
    ELSE Size(1024, 1024)

\* C14 as claimed: the Vertex route maps 2:3 to 3:4, 3:2 to 4:3, the other
\* logical ratios to themselves and any other input to 3:4, always into its
\* supported set; generateImageFal, given no explicit size, picks a size that
\* depends on the ratio alone, 1024x1024 for an unlisted or absent one.
C14_RatioMappingByRatioAlone ==
    /\ probe.fn = "vertexRoute" =>
           /\ probe.result \in VertexSupported
           /\ probe.result =
                  IF probe.aspectRatio = "2:3" THEN "3:4"
                  ELSE IF probe.aspectRatio = "3:2" THEN "4:3"
                  ELSE IF probe.aspectRatio \in LogicalRatios THEN probe.aspectRatio
                  ELSE "3:4"
    /\ (probe.fn = "falImageSize" /\ (probe.options.width = 0 \/ probe.options.height = 0)) =>
           probe.result = FalSizeOfRatio(probe.options.aspectRatio)

\* C14 as amended: the Vertex route also maps its own ratios 3:4 and 4:3 to
\* themselves; generateImageFal picks 1696x2528 instead of 832x1216 for 2:3
\* when the prompt contains "Resolution: 2K", and an explicit width and height
\* override the ratio.
C14_RatioMapping ==
    /\ probe.fn = "vertexRoute" =>
           /\ probe.result \in VertexSupported
           /\ probe.result =
                  IF probe.aspectRatio = "2:3" THEN "3:4"
                  ELSE IF probe.aspectRatio = "3:2" THEN "4:3"
                  ELSE IF probe.aspectRatio \in VertexSupported THEN probe.aspectRatio
                  ELSE "3:4"
    /\ probe.fn = "falImageSize" =>
           probe.result =
              IF probe.options.width # 0 /\ probe.options.height # 0
              THEN Size(probe.options.width, probe.options.height)
              ELSE IF probe.options.aspectRatio = "2:3" /\ Includes2K(probe.prompt)
              THEN Size(1696, 2528)
              ELSE FalSizeOfRatio(probe.options.aspectRatio)

C14_Witness ==
    /\ probe.fn = "falImageSize"
    /\ probe.options = [aspectRatio |-> "2:3", width |-> 0, height |-> 0]
    /\ Includes2K(probe.prompt)
    /\ probe.result = Size(1696, 2528)
\* the HTTP statuses the adapter of the probed call has received
ReceivedStatuses ==
    IF probe.resp.net = "error" THEN {}
    ELSE IF probe.fn = "generateImageFal"
            /\ HttpOk(probe.resp.status) /\ probe.resp.jsonOk
            /\ Len(probe.resp.images) > 0 /\ probe.resp.imgNet = "ok"
    THEN {probe.resp.status, probe.resp.imgStatus}
    ELSE {probe.resp.status}

AdapterProbed ==
    probe.fn \in {"generateImage", "generateImageFal", "generateImageVertex"}

\* C15: an adapter throws whenever an HTTP response it has received while
\* serving the call has a non-2xx status, the download of the image URL that
\* fal returned included.
C15_Non2xxThrows ==
    AdapterProbed =>
        ((\E st \in ReceivedStatuses : ~HttpOk(st)) => ~probe.result.ok)

\* C16: an adapter returns a present, non-empty base64 payload or throws.
C16_PayloadOrThrow ==
    AdapterProbed =>
        (probe.result.ok =>
            /\ probe.result.value # Undefined
            /\ probe.result.value # Base64(<<>>))
\* C17: each adapter posts an augmented prompt: generateImageFal the caller's
\* prompt with its manga style tag appended, generateImage its enhanced prompt.
C17_AdaptersAugmentPrompt ==
    /\ probe.fn = "generateImageFal" =>
           probe.body.prompt = probe.prompt \o <<StyleTag>>
    /\ probe.fn = "generateImage" =>
           /\ probe.body.prompt # probe.prompt
           /\ probe.body.prompt = GeminiEnhancedPrompt(probe.prompt, probe.options)
\* the positions of a text segment in a prompt
Positions(text, segment) == {j \in 1..Len(text) : text[j] = segment}

\* C18: for either provider the prompt text that reaches the provider starts
\* with the planned page prompt, which is followed by the aspect-ratio
\* directive and the resolution and style boosters, and it contains the
\* character-consistency instruction exactly when a reference image was
\* resolved.
C18_FinalPromptComposition ==
    probe.fn = "dispatchPage" =>
        LET text == probe.body.prompt
        IN  /\ text[1] = probe.planned
            /\ \E a \in Positions(text, AspectDirective(probe.aspectRatio)) :
                   /\ a > 1
                   /\ \A b \in {ResolutionBooster, QualityBooster, StyleTag,
                                 DetailBooster} :
                          \E k \in Positions(text, b) : k > a
            /\ (Positions(text, ConsistencyInstruction) # {}) <=> (probe.refs # <<>>)
\* the run r has been started / has ended (Completed or Aborted)
Started(r) == r \in RunIds

Ended(r) == r \in RunIds /\ runs[r].outcome # "running"

\* C19: every started run eventually reaches Completed or Aborted, even when
\* a provider call never receives a response: the adapter surfaces the
\* silent call as a failure after its own timeout.
C19_EveryRunEnds ==
    \A r \in 1..MaxRuns : Started(r) ~> Ended(r)
\* the gallery positions that hold an image answered to run r
GalleryOf(r, gallery) ==
    {j \in 1..Len(gallery) :
        gallery[j] \in {PageImage(r, p) : p \in 1..Len(PromptPool)}}

\* every image call of the log has settled by returning
AllReturned(calls) == \A c \in 1..Len(calls) : calls[c].state = "returned"

\* Planning: the planner call of the run is awaited
PlanningShape(b) ==
    /\ b.pc = "awaitPlanner"
    /\ Len(b.plannerCalls) = 1
    /\ LastCall(b.plannerCalls).state = "pending"
    /\ b.imageCalls = <<>>

\* Dispatching(k): the planner has returned and page k is awaited, after k - 1
\* pages that returned
DispatchingShape(b, k) ==
    /\ b.pc = "awaitImage"
    /\ Len(b.plannerCalls) = 1
    /\ LastCall(b.plannerCalls).state = "returned"
    /\ Len(b.imageCalls) = k
    /\ k \in 1..Len(b.prompts)
    /\ \A c \in 1..k : b.imageCalls[c].page = c
    /\ AllReturned(SubSeq(b.imageCalls, 1, k - 1))
    /\ b.imageCalls[k].state = "pending"

\* Completed after n pages, all returned
CompletedShape(b, n) ==
    /\ b.pc = "done"
    /\ b.outcome = "completed"
    /\ Len(b.plannerCalls) = 1
    /\ LastCall(b.plannerCalls).state = "returned"
    /\ Len(b.imageCalls) = n
    /\ AllReturned(b.imageCalls)

\* Aborted by the planner call or by the image call of page k
AbortedShape(b, k) ==
    /\ b.pc = "done"
    /\ b.outcome = "aborted"
    /\ Len(b.plannerCalls) = 1
    /\ Len(b.imageCalls) = k
    /\ IF k = 0
       THEN LastCall(b.plannerCalls).state = "threw"
       ELSE /\ LastCall(b.plannerCalls).state = "returned"
            /\ AllReturned(SubSeq(b.imageCalls, 1, k - 1))
            /\ b.imageCalls[k].state = "threw"

\* Aborted before Planning: the reference lookups failed or the Gemini key of
\* the planner is missing, and no call was issued
AbortedBeforePlanning(b) ==
    /\ b.pc = "done"
    /\ b.outcome = "aborted"
    /\ b.plannerCalls = <<>>
    /\ b.imageCalls = <<>>
    /\ error' \in {DbErrorMessage, NeedGeminiKeyMessage}

\* a run that has ended issues no call and appends no image
NothingAfterEnd(r) ==
    /\ runs'[r] \in {runs[r], Retire(runs[r])}
    /\ GalleryOf(r, generatedImages') \subseteq GalleryOf(r, generatedImages)

\* the number of pages requested / the number of pages the loop runs over
RequestedPages(b) == b.pageCount

PlannedPages(b) == Len(b.prompts)

\* one step of run r in the state machine, where dispatching runs over the
\* planned or over the requested pages, and a run may or may not end before
\* Planning
RunStep(r, overPlannedPages, mayEndBeforePlanning) ==
    LET a == runs[r]
        b == runs'[r]
        k == Len(a.imageCalls)
        n(c) == IF overPlannedPages THEN PlannedPages(c) ELSE RequestedPages(c)
    IN  \/ b = a /\ GalleryOf(r, generatedImages') = GalleryOf(r, generatedImages)
        \/ /\ a.pc = "awaitRefs"
           /\ \/ PlanningShape(b)
              \/ mayEndBeforePlanning /\ AbortedBeforePlanning(b)
        \/ /\ a.pc = "awaitPlanner"
           /\ \/ DispatchingShape(b, 1)
              \/ CompletedShape(b, 0) /\ n(b) = 0
              \/ AbortedShape(b, 0)
        \/ /\ a.pc = "awaitImage"
           /\ b.plannerCalls = a.plannerCalls
           /\ \/ DispatchingShape(b, k + 1) /\ k < n(b)
              \/ CompletedShape(b, k) /\ k = n(b)
              \/ AbortedShape(b, k)
        \/ /\ a.pc \in {"done", "retired"}
           /\ NothingAfterEnd(r)

\* a run starts at the reference lookups with no call issued
RunStart ==
    Len(runs') > Len(runs) =>
        /\ Len(runs') = Len(runs) + 1
        /\ LET b == runs'[Len(runs')]
           IN  b.pc = "awaitRefs" /\ b.plannerCalls = <<>> /\ b.imageCalls = <<>>

InFlight(r) == r \in RunIds /\ runs[r].outcome = "running"

\* the step is taken by run r: its start or the continuation of one of its
\* awaits
StepOf(r) ==
    \/ r > Len(runs) /\ Len(runs') = r
    \/ r \in RunIds /\ runs'[r] # runs[r] /\ runs'[r] # Retire(runs[r])

ReturnedPages(r) ==
    {c \in 1..Len(runs[r].imageCalls) : runs[r].imageCalls[c].state = "returned"}

\* C22: the number of output pages of a run is decided by the answers that
\* run received and by nothing a run before it left behind: when a run ends,
\* the gallery holds one page for each image call of the run that returned,
\* and every page in it is a page of this run. Two runs in succession with
\* the same request and the same answers so yield the same number of pages.
C22_RepeatYieldsSamePages ==
    \A r \in RunIds :
        JustEnded(r) =>
            /\ Len(generatedImages) = Cardinality(ReturnedPages(r))
            /\ GalleryOf(r, generatedImages) = 1..Len(generatedImages)

\* a second run has completed with pages after a first run that completed
C22_Witness ==
    \E r \in RunIds :
        /\ JustEnded(r)
        /\ runs[r].outcome = "completed"
        /\ Len(generatedImages) >= 2
        /\ \E q \in 1..(r - 1) : runs[q].outcome = "completed"
\* the planner of run r returned as many prompts as pages were requested and
\* no image call of the run failed
StubsSucceeded(r) ==
    /\ PlannerReturned(r)
    /\ Len(runs[r].prompts) = runs[r].pageCount
    /\ FailedPages(r) = {}

\* C23: a run whose planner returned pageCount prompts and whose image calls
\* all succeeded ends completed with no error, and its result is exactly
\* pageCount images in prompt order: entry i is the image the provider
\* returned to the call made with prompt i.
C23_AllPagesInPromptOrder ==
    \A r \in RunIds :
        (JustEnded(r) /\ StubsSucceeded(r)) =>
            /\ runs[r].outcome = "completed"
            /\ error = ""
            /\ Len(runs[r].imageCalls) = runs[r].pageCount
            /\ \A j \in 1..runs[r].pageCount :
                   /\ runs[r].imageCalls[j].page = j
                   /\ runs[r].imageCalls[j].prompt[1] = runs[r].prompts[j]
            /\ generatedImages = [j \in 1..runs[r].pageCount |-> PageImage(r, j)]

\* a run of several pages on the fal route has ended that way
C23_Witness ==
    \E r \in RunIds :
        /\ JustEnded(r)
        /\ StubsSucceeded(r)
        /\ runs[r].pageCount = MaxPrompts
        /\ runs[r].provider = "fal"
        /\ Len(generatedImages) = MaxPrompts
\* the step is taken by a run of handleGenerate: a click or the continuation of
\* an await
HandlerStep == runs' # runs \/ outVars' # outVars \/ lastOp' # lastOp

\* C24: a run of handleGenerate only reads the reference-image store: no step
\* of a run, whatever its outcome, changes the set of stored records.
C24_StoreReadOnly ==
    [][HandlerStep => dbImages' = dbImages]_vars

\* a run that looked up a stored reference image has ended and the image is
\* still stored
C24_Witness ==
    \E r \in RunIds :
        /\ JustEnded(r)
        /\ runs[r].lookups # <<>>
        /\ \A j \in 1..Len(runs[r].lookups) : runs[r].lookups[j] \in dbImages
        /\ runs[r].validImages # <<>>
\* C25: no failure is silent: when a run ends without having produced all the
\* pages that were requested, the error state holds a non-empty message.
C25_NoSilentFailure ==
    \A r \in RunIds :
        (JustEnded(r) /\ Len(generatedImages) < runs[r].pageCount) => error # ""
\* the configuration is incomplete or its provider tag is unknown
ConfigIncomplete(config) ==
    \/ config.provider = "google" /\ config.apiKey = ""
    \/ config.provider = "vertex" /\ (config.projectId = "" \/ config.location = "")
    \/ config.provider \notin {"google", "vertex"}

ServerActionProbed == probe.fn \in {"generateImageAction", "generateMangaPromptsAction"}

\* C26: with an incomplete or unknown configuration both server actions end
\* in a thrown error without having constructed an SDK client or issued a
\* provider call.
C26_ConfigurationFailsFast ==
    (ServerActionProbed /\ ConfigIncomplete(probe.config)) =>
        /\ ~probe.outcome.result.ok
        /\ probe.outcome.result.err.isError
        /\ probe.outcome.effects = <<>>

\* generateMangaPromptsAction was called for vertex with a project and no
\* location
C26_Witness ==
    /\ probe.fn = "generateMangaPromptsAction"
    /\ probe.config.provider = "vertex"
    /\ probe.config.projectId # ""
    /\ probe.config.location = ""
    /\ ~probe.outcome.result.ok
\* C27: provided each awaited call eventually settles, a run that has set
\* isGenerating eventually sets it back to false and clears statusMessage, on
\* the success path and on every failure path.
C27_BusyIsReset ==
    isGenerating ~> (~isGenerating /\ statusMessage = StatusEmpty)

\* a run has ended by a failure of its second page and the flag is reset
C27_Witness ==
    \E r \in RunIds :
        /\ JustEnded(r)
        /\ runs[r].outcome = "aborted"
        /\ Len(runs[r].imageCalls) = 2
        /\ ~isGenerating
        /\ statusMessage = StatusEmpty
\* the runs in flight
RunsInFlight == {r \in RunIds : runs[r].outcome = "running"}

\* C28: at most one run of handleGenerate is in flight at any time, and it is
\* in flight exactly while isGenerating is true: a run starts only when the
\* flag is false and every run before it has reached its end.
C28_OneRunAtATime ==
    [][/\ Cardinality(RunsInFlight') <= 1
       /\ isGenerating' <=> RunsInFlight' # {}
       /\ Len(runs') > Len(runs) => (~isGenerating /\ RunsInFlight = {})]_vars

\* a second run is in flight after the first one has ended
C28_Witness ==
    /\ isGenerating
    /\ Len(runs) >= 2
    /\ RunsInFlight = {Len(runs)}
    /\ runs[Len(runs)].pc = "awaitImage"
\* C29: the start of a run clears generatedImages and error, and from then on
\* generatedImages holds only images of the most recently started run, never
\* a mix of two runs; while that run has issued no image call, and so when it
\* aborts during planning, the gallery is empty.
C29_GalleryOfLatestRun ==
    [][/\ Len(runs') > Len(runs) => (generatedImages' = <<>> /\ error' = "")
       /\ runs' # <<>> =>
              /\ GalleryOf(Len(runs'), generatedImages') = 1..Len(generatedImages')
              /\ runs'[Len(runs')].imageCalls = <<>> => generatedImages' = <<>>]_vars

\* a run has aborted during planning after a run that completed
C29_Witness ==
    \E r \in RunIds :
        /\ r >= 2
        /\ JustEnded(r)
        /\ PlannerThrew(r)
        /\ runs[r - 1].outcome = "completed"
        /\ generatedImages = <<>>
\* the candidate models that succeed on the probed request
Succeeding == {j \in 1..Len(CandidateModels) : probe.answers[j] = "ok"}

\* the candidates were tried in the listed order, one at a time, up to the
\* first that succeeds, whose result is returned; the call throws when all
\* have failed, and then the error of the last candidate
TriedInOrder ==
    LET calls == probe.outcome.calls
        result == probe.outcome.result
    IN  /\ calls = SubSeq(CandidateModels, 1, Len(calls))
        /\ result.ok <=> Succeeding # {}
        /\ result.ok =>
               /\ \A j \in Succeeding : Len(calls) <= j
               /\ Len(calls) \in Succeeding
               /\ result.value = AnalysisText(CandidateModels[Len(calls)])
        /\ ~result.ok =>
               /\ calls = CandidateModels
               /\ result.err = AnalysisError(CandidateModels[Len(CandidateModels)])

\* no model was tried and the call threw
ThrewBeforeAnyModel ==
    /\ probe.outcome.calls = <<>>
    /\ ~probe.outcome.result.ok

\* C30 as stated: analyzeCharacterFeatures tries its candidate models in the
\* listed order, returns the result of the first that succeeds and throws only
\* after all have failed, with the error of the last one; only a missing API
\* key makes it throw before any model is tried.
C30_ThrowsOnlyAfterAllFailed ==
    probe.fn = "analyzeCharacterFeatures" =>
        IF probe.apiKey = "" THEN ThrewBeforeAnyModel ELSE TriedInOrder

\* C30 amended: the same, where a missing API key and an image that cannot
\* be read both make the call throw before any model is tried.
C30_FirstSuccessWins ==
    probe.fn = "analyzeCharacterFeatures" =>
        IF probe.apiKey = "" \/ probe.reader = "error"
        THEN ThrewBeforeAnyModel
        ELSE TriedInOrder

\* the first two candidates failed and the third answered
C30_Witness ==
    /\ probe.fn = "analyzeCharacterFeatures"
    /\ probe.apiKey # ""
    /\ probe.reader = "ok"
    /\ probe.answers[1] = "error"
    /\ probe.answers[2] = "error"
    /\ probe.answers[3] = "ok"
    /\ probe.outcome.result.ok
    /\ Len(probe.outcome.calls) = 3

====
